---- MODULE Spec2Model ----
(***************************************************************************)
(* Model of src/src/scim_syncer.py: the entry dispatcher cli_entry_point,  *)
(* the main synchronization workflow (main) and the on-demand fan-out      *)
(* (provision_all_users_on_demand_in_app), with the six leaf operations    *)
(* that wrap one remote call each.                                         *)
(*                                                                         *)
(* The program is one coroutine.  Every action below is one suspension     *)
(* point (one awaited leaf operation): the remote directory answers with   *)
(* any response or raises, the leaf turns the answer into its return value *)
(* or exception, and the caller's code runs up to the next awaited call.   *)
(***************************************************************************)
EXTENDS Integers, Sequences, FiniteSets, TLC

\* ---------------------------------------------------------------- bounds
MaxJobs == 2       \* longest service-principal list and job list answered
MaxGroups == 2     \* longest app-role-assignment list answered
MaxMembers == 2    \* longest group-member list answered

\* ------------------------------------------------------------ Python values
None == "None"                     \* Python's None (also: variable unset)

Truthy(s) == s # None /\ s # ""    \* truth value of an Optional[str]

SeqsUpTo(S, n) == UNION {[1..k -> S] : k \in 0..n}

\* str.lower() on the characters the flag values use
LowerChar(c) ==
    CASE c = "T" -> "t"
      [] c = "R" -> "r"
      [] c = "U" -> "u"
      [] c = "E" -> "e"
      [] OTHER -> c

lower(s) == [i \in 1..Len(s) |-> LowerChar(s[i])]

\* ------------------------------------------------------------ environment
\* RUN_ON_DEMAND_PROVISIONING: unset, or a string (a sequence of characters)
FlagStrings ==
    { <<"t","r","u","e">>, <<"T","r","u","E">>, <<"t","r","u","e"," ">>,
      <<"f","a","l","s","e">>, <<"1">> }

FlagSettings ==
    {[isset |-> FALSE, value |-> <<>>]} \cup
    {[isset |-> TRUE, value |-> s] : s \in FlagStrings}

\* AZURE_APP_ID: unset (None), empty, or an application id
AppIdSettings == {None, "", "app-1"}

\* os.getenv("RUN_ON_DEMAND_PROVISIONING", "false")
getenv_flag(env) ==
    IF env.RUN_ON_DEMAND_PROVISIONING.isset
    THEN env.RUN_ON_DEMAND_PROVISIONING.value
    ELSE <<"f","a","l","s","e">>

\* os.getenv("AZURE_APP_ID")
getenv_app_id(env) == env.AZURE_APP_ID

\* (variant: the flag is compared without lower())
run_on_demand_exact(env) == getenv_flag(env) = <<"t","r","u","e">>

\* os.getenv("RUN_ON_DEMAND_PROVISIONING", "false").lower() == "true"
run_on_demand(env) == lower(getenv_flag(env)) = <<"t","r","u","e">>

\* ------------------------------------------------- the remote directory
\* What one remote call can do: answer (status "ok") with no response
\* object, with an object whose value is None, or with an object carrying a
\* list; or raise an ODataError (whose error body may be missing) or any
\* other Exception.
Ids(S) == {None, ""} \cup S

ServicePrincipals == {[id |-> i] : i \in Ids({"sp-1"})}
SynchronizationJobs == {[id |-> i] : i \in Ids({"job-1", "job-2"})}
AppRoleAssignments ==
    { [principal_id |-> None, principal_display_name |-> None],
      [principal_id |-> "",   principal_display_name |-> None],
      [principal_id |-> "g1", principal_display_name |-> "Team A"],
      [principal_id |-> "g2", principal_display_name |-> None] }
\* members of a group are directory objects of any kind: an entry without
\* an id, a user, a nested group
DirectoryObjects ==
    { [id |-> None, odata_type |-> "#microsoft.graph.user"],
      [id |-> "u1", odata_type |-> "#microsoft.graph.user"],
      [id |-> "u2", odata_type |-> "#microsoft.graph.group"] }

Answers(Elems, n) ==
    { [exc |-> None, error |-> None, kind |-> "None", value |-> <<>>],
      [exc |-> None, error |-> None, kind |-> "NoValue", value |-> <<>>] } \cup
    { [exc |-> None, error |-> None, kind |-> "Value", value |-> v] :
          v \in SeqsUpTo(Elems, n) }

Failures ==
    { [exc |-> "ODataError", error |-> "message", kind |-> "None", value |-> <<>>],
      [exc |-> "ODataError", error |-> None, kind |-> "None", value |-> <<>>],
      [exc |-> "Exception", error |-> None, kind |-> "None", value |-> <<>>] }

\* a post action answers nothing
PostAnswers == {[exc |-> None, error |-> None, kind |-> "None", value |-> <<>>]}

\* `if response and response.value`
HasValue(o) == o.kind = "Value" /\ Len(o.value) > 0

\* ------------------------------------------------------------------ log
\* The error-level log (logger.error), kept as the set of records written:
\* which function wrote one, and about what (the exception, or the condition
\* that made it give up).  The ids a message names are not kept.
ErrorRecord(fn, about) == [fn |-> fn, about |-> about]

\* -------------------------------------------------------- leaf operations
\* A leaf returns [exc, value, errors]: the exception it raises (None when
\* it returns), its return value, and the error records it logged.
Returns(v) == [exc |-> None, value |-> v, errors |-> {}]

\* except ODataError: log o_data_error.error.message, raise
\* except Exception:  log, raise
\* Formatting the message of an ODataError that has no error body raises
\* AttributeError inside the handler, before anything is logged.
Reraise(fn, o) ==
    IF o.exc = "ODataError" /\ o.error = None
    THEN [exc |-> "AttributeError", value |-> None, errors |-> {}]
    ELSE [exc |-> o.exc, value |-> None,
          errors |-> {ErrorRecord(fn, o.exc)}]

get_graph_client(o) ==
    IF o.exc # None
    THEN [exc |-> o.exc, value |-> None,
          errors |-> {ErrorRecord("get_graph_client", o.exc)}]
    ELSE Returns("client")

get_service_principal_id(o) ==
    IF o.exc # None THEN Reraise("get_service_principal_id", o)
    ELSE IF HasValue(o) THEN Returns(o.value[1].id)
    ELSE Returns(None)

\* (variant: the last listed job is taken, not the first)
get_synchronization_job_id_last(o) ==
    IF o.exc # None THEN Reraise("get_synchronization_job_id", o)
    ELSE IF HasValue(o) THEN Returns(o.value[Len(o.value)].id)
    ELSE Returns(None)

\* (variant: the first element is read without checking the list, and the
\* error that raises on an empty or missing list is logged and re-raised)
get_synchronization_job_id_unchecked(o) ==
    IF o.exc # None THEN Reraise("get_synchronization_job_id", o)
    ELSE IF HasValue(o) THEN Returns(o.value[1].id)
    ELSE [exc |-> "Exception", value |-> None,
          errors |-> {ErrorRecord("get_synchronization_job_id", "Exception")}]

get_synchronization_job_id(o) ==
    IF o.exc # None THEN Reraise("get_synchronization_job_id", o)
    ELSE IF HasValue(o) THEN Returns(o.value[1].id)
    ELSE Returns(None)

start_synchronization_job(o) ==
    IF o.exc # None THEN Reraise("start_synchronization_job", o)
    ELSE Returns(None)

\* (variant: every assignment is kept, with or without a principal id)
GroupsInfo_unfiltered(assignments) ==
    [i \in 1..Len(assignments) |->
        [id |-> assignments[i].principal_id,
         displayName |-> assignments[i].principal_display_name]]

\* (variant: a group that is already in the list is not added again)
RECURSIVE GroupsInfo_unique(_)
GroupsInfo_unique(assignments) ==
    IF assignments = <<>> THEN <<>>
    ELSE LET a == assignments[Len(assignments)]
             front == GroupsInfo_unique(SubSeq(assignments, 1, Len(assignments) - 1))
         IN IF Truthy(a.principal_id)
               /\ \A i \in 1..Len(front) : front[i].id # a.principal_id
            THEN Append(front, [id |-> a.principal_id,
                                displayName |-> a.principal_display_name])
            ELSE front

\* (variant: each group found is put in front of the list)
RECURSIVE GroupsInfo_reversed(_)
GroupsInfo_reversed(assignments) ==
    IF assignments = <<>> THEN <<>>
    ELSE LET a == Head(assignments)
             rest == GroupsInfo_reversed(Tail(assignments))
         IN IF Truthy(a.principal_id)
            THEN rest \o <<[id |-> a.principal_id,
                            displayName |-> a.principal_display_name]>>
            ELSE rest

RECURSIVE GroupsInfo(_)
GroupsInfo(assignments) ==
    IF assignments = <<>> THEN <<>>
    ELSE LET a == Head(assignments)
             rest == GroupsInfo(Tail(assignments))
         IN IF Truthy(a.principal_id)
            THEN <<[id |-> a.principal_id,
                    displayName |-> a.principal_display_name]>> \o rest
            ELSE rest

\* (variant: the assignments are iterated without checking the response)
get_assigned_groups_unchecked(o) ==
    IF o.exc # None THEN Reraise("get_assigned_groups", o)
    ELSE IF o.kind = "Value" THEN Returns(GroupsInfo(o.value))
    ELSE [exc |-> "Exception", value |-> None,
          errors |-> {ErrorRecord("get_assigned_groups", "Exception")}]

get_assigned_groups(o) ==
    IF o.exc # None THEN Reraise("get_assigned_groups", o)
    ELSE IF HasValue(o) THEN Returns(GroupsInfo(o.value))
    ELSE Returns(<<>>)

\* (variant: only the members that are users are kept)
UserIds_users_only(members) ==
    LET users == SelectSeq(members, LAMBDA m :
                     Truthy(m.id) /\ m.odata_type = "#microsoft.graph.user")
    IN [i \in 1..Len(users) |-> users[i].id]

RECURSIVE UserIds(_)
UserIds(members) ==
    IF members = <<>> THEN <<>>
    ELSE LET m == Head(members)
             rest == UserIds(Tail(members))
         IN IF Truthy(m.id) THEN <<m.id>> \o rest ELSE rest

\* (variant: a listing that fails is logged and counts as an empty group)
get_group_members_swallowed(o) ==
    IF o.exc # None
    THEN [exc |-> None, value |-> <<>>,
          errors |-> {ErrorRecord("get_group_members", o.exc)}]
    ELSE IF HasValue(o) THEN Returns(UserIds(o.value))
    ELSE Returns(<<>>)

get_group_members(o) ==
    IF o.exc # None THEN Reraise("get_group_members", o)
    ELSE IF HasValue(o) THEN Returns(UserIds(o.value))
    ELSE Returns(<<>>)

provision_user_on_demand(o) ==
    IF o.exc # None THEN Reraise("provision_user_on_demand", o)
    ELSE Returns(None)

\* -------------------------------------------------------------- handlers
\* What an except clause does with an exception: the error records it logs
\* and the exception that leaves it (None: suppressed).
Handled(fn, exc) == [exc |-> None, errors |-> {ErrorRecord(fn, exc)}]

\* (variant: main's handler lets the exception through)
main_reraise(exc) == [exc |-> exc, errors |-> {}]

\* main: except Exception as e: logger.error(...)
main_except(exc) == Handled("main", exc)

\* (variant: the dispatcher's handler lets the exception through)
cli_entry_point_reraise(exc) == [exc |-> exc, errors |-> {}]

\* cli_entry_point: except Exception as e: logger.error(...)
cli_entry_point_except(exc) == Handled("cli_entry_point", exc)

\* (variant: the per-user handler lets the exception through)
provision_loop_reraise(exc, user_id, group_id) == [exc |-> exc, errors |-> {}]

\* the per-user try/except inside the fan-out loops
provision_loop_except(exc, user_id, group_id) ==
    Handled("provision_all_users_on_demand_in_app", exc)

\* ------------------------------------------------------ workflow conditions
\* (variant: only an unset variable counts as missing)
app_id_unset(env) == getenv_app_id(env) = None

\* `if not app_id_to_sync` / `if not app_id_for_demand`
app_id_missing(env) == ~Truthy(getenv_app_id(env))

\* (variant: only None counts as not found)
not_found_none_only(id) == id = None

\* (variant: the not-found check is left out)
not_found_unchecked(id) == FALSE

\* `if not service_principal_id` / `if not job_id`
not_found(id) == ~Truthy(id)

\* `if not assigned_groups_info` / `if not user_ids`
is_empty(xs) == Len(xs) = 0

\* (variant: the loop leaves out the last element)
for_stops_early(idx, xs) == idx + 1 < Len(xs)

\* a for loop standing at element idx of xs has a next element
for_has_next(idx, xs) == idx < Len(xs)

\* ----------------------------------------------------------------- state
VARIABLES
    environ,               \* the process environment (never written)
    pc,                    \* the awaited call the coroutine is suspended at
    workflow,              \* the branch cli_entry_point took (None before)
    graph_client,          \* main's graph_client / cli_entry_point's client
    service_principal_id,  \* local of the running workflow
    job_id,                \* local of the running workflow
    assigned_groups_info,  \* local of the fan-out
    group_idx,             \* position of the outer for loop
    user_ids,              \* local of the fan-out: members of the current group
    user_idx,              \* position of the inner for loop
    calls,                 \* the requests issued so far, in order
    errors,                \* the error-level log records written
    last,                  \* the latest leaf call: the answer and the result
    uncaught               \* exception that left cli_entry_point (None: none)

vars == <<environ, pc, workflow, graph_client, service_principal_id, job_id,
          assigned_groups_info, group_idx, user_ids, user_idx, calls, errors,
          last, uncaught>>

\* One entry of calls: the remote operation, the ids the request carries,
\* its argument (the application id of the filter, the group id, the
\* subject's object id), the subject's type tag, and what the leaf handed
\* back to the workflow (None when it raised or hands back nothing, the empty list when a listing raised).
Call(op, sp, job, arg, type, returned) ==
    [op |-> op, service_principal_id |-> sp, job_id |-> job, arg |-> arg,
     object_type_name |-> type, returned |-> returned]

\* (variant: the two ids of the start request are passed in the wrong order)
start_request_swapped(sp, job) ==
    Call("synchronization.jobs.start.post", job, sp, None, None, None)

\* service_principals.by_service_principal_id(sp).synchronization.jobs
\*     .by_synchronization_job_id(job).start.post()
start_request(sp, job) ==
    Call("synchronization.jobs.start.post", sp, job, None, None, None)

\* (variant: the two ids of the trigger request are passed in the wrong order)
provision_request_swapped(sp, job, user_id) ==
    Call("synchronization.jobs.provision_on_demand.post", job, sp, user_id,
         "User", None)

\* subject = SynchronizationJobSubject(object_id=user_id, object_type_name="User")
\* service_principals.by_service_principal_id(sp).synchronization.jobs
\*     .by_synchronization_job_id(job).provision_on_demand.post(body=subject)
provision_request(sp, job, user_id) ==
    Call("synchronization.jobs.provision_on_demand.post", sp, job, user_id,
         "User", None)

NoLeaf == [fn |-> None,
           answer |-> [exc |-> None, error |-> None, kind |-> "None", value |-> <<>>],
           result |-> Returns(None)]

Init ==
    /\ environ \in [RUN_ON_DEMAND_PROVISIONING : FlagSettings,
                    AZURE_APP_ID : AppIdSettings]
    /\ pc = "cli_entry_point"
    /\ workflow = None
    /\ graph_client = None
    /\ service_principal_id = None
    /\ job_id = None
    /\ assigned_groups_info = <<>>
    /\ group_idx = 0
    /\ user_ids = <<>>
    /\ user_idx = 0
    /\ calls = <<>>
    /\ errors = {}
    /\ last = NoLeaf
    /\ uncaught = None

\* --------------------------------------------------------------- actions
Leaf(fn, o, r) == [fn |-> fn, answer |-> o, result |-> r]

\* an exception reaches main's `except Exception`; what leaves main leaves
\* cli_entry_point too (`await main()` is not inside a try)
MainRaises(r) ==
    LET h == main_except(r.exc)
    IN /\ errors' = errors \cup r.errors \cup h.errors
       /\ uncaught' = h.exc
       /\ pc' = "exit"

\* (variant: when the on-demand branch fails, the main workflow is run instead)
OnDemandRaises_fallback(exc, logged) ==
    LET h == cli_entry_point_except(exc)
    IN /\ errors' = errors \cup logged \cup h.errors
       /\ uncaught' = h.exc
       /\ pc' = "main:get_service_principal_id"

\* an exception leaves provision_all_users_on_demand_in_app (or
\* get_graph_client) and reaches cli_entry_point's `except Exception`
OnDemandRaises(exc, logged) ==
    LET h == cli_entry_point_except(exc)
    IN /\ errors' = errors \cup logged \cup h.errors
       /\ uncaught' = h.exc
       /\ pc' = "exit"

\* cli_entry_point up to its first awaited call, main's first lines included
CliEntryPoint ==
    /\ pc = "cli_entry_point"
    /\ IF run_on_demand(environ)
       THEN /\ workflow' = "on_demand"
            /\ IF app_id_missing(environ)
               THEN /\ errors' = errors \cup
                          {ErrorRecord("cli_entry_point", "AZURE_APP_ID not set")}
                    /\ pc' = "exit"
               ELSE /\ pc' = "cli:get_graph_client"
                    /\ UNCHANGED errors
       ELSE /\ workflow' = "main"
            /\ IF app_id_missing(environ)
               THEN /\ errors' = errors \cup
                          {ErrorRecord("main", "AZURE_APP_ID not set")}
                    /\ pc' = "exit"
               ELSE /\ pc' = "main:get_graph_client"
                    /\ UNCHANGED errors
    /\ UNCHANGED <<environ, graph_client, service_principal_id, job_id,
                   assigned_groups_info, group_idx, user_ids, user_idx, calls,
                   last, uncaught>>

ClientAnswers == PostAnswers \cup {o \in Failures : o.exc = "Exception"}

\* main: graph_client = await get_graph_client()
MainGetGraphClient ==
    /\ pc = "main:get_graph_client"
    /\ \E o \in ClientAnswers :
         LET r == get_graph_client(o)
         IN /\ calls' = Append(calls, Call("get_graph_client", None, None, None, None, r.value))
            /\ last' = Leaf("get_graph_client", o, r)
            /\ IF r.exc # None
               THEN MainRaises(r) /\ UNCHANGED graph_client
               ELSE /\ graph_client' = r.value
                    /\ pc' = "main:get_service_principal_id"
                    /\ UNCHANGED <<errors, uncaught>>
    /\ UNCHANGED <<environ, workflow, service_principal_id, job_id,
                   assigned_groups_info, group_idx, user_ids, user_idx>>

\* main: service_principal_id = await get_service_principal_id(...)
MainGetServicePrincipalId ==
    /\ pc = "main:get_service_principal_id"
    /\ \E o \in Answers(ServicePrincipals, MaxJobs) \cup Failures :
         LET r == get_service_principal_id(o)
         IN /\ calls' = Append(calls, Call("service_principals.get", None, None,
                                           getenv_app_id(environ), None, r.value))
            /\ last' = Leaf("get_service_principal_id", o, r)
            /\ IF r.exc # None
               THEN MainRaises(r) /\ UNCHANGED service_principal_id
               ELSE /\ service_principal_id' = r.value
                    /\ UNCHANGED uncaught
                    /\ IF not_found(r.value)
                       THEN /\ errors' = errors \cup
                                  {ErrorRecord("main", "service principal not found")}
                            /\ pc' = "exit"
                       ELSE /\ pc' = "main:get_synchronization_job_id"
                            /\ UNCHANGED errors
    /\ UNCHANGED <<environ, workflow, graph_client, job_id,
                   assigned_groups_info, group_idx, user_ids, user_idx>>

\* main: job_id = await get_synchronization_job_id(...)
MainGetSynchronizationJobId ==
    /\ pc = "main:get_synchronization_job_id"
    /\ \E o \in Answers(SynchronizationJobs, MaxJobs) \cup Failures :
         LET r == get_synchronization_job_id(o)
         IN /\ calls' = Append(calls, Call("synchronization.jobs.get",
                                           service_principal_id, None, None, None, r.value))
            /\ last' = Leaf("get_synchronization_job_id", o, r)
            /\ IF r.exc # None
               THEN MainRaises(r) /\ UNCHANGED job_id
               ELSE /\ job_id' = r.value
                    /\ UNCHANGED uncaught
                    /\ IF not_found(r.value)
                       THEN /\ errors' = errors \cup
                                  {ErrorRecord("main", "synchronization job not found")}
                            /\ pc' = "exit"
                       ELSE /\ pc' = "main:start_synchronization_job"
                            /\ UNCHANGED errors
    /\ UNCHANGED <<environ, workflow, graph_client, service_principal_id,
                   assigned_groups_info, group_idx, user_ids, user_idx>>

\* main: await start_synchronization_job(...), then main returns
MainStartSynchronizationJob ==
    /\ pc = "main:start_synchronization_job"
    /\ \E o \in PostAnswers \cup Failures :
         LET r == start_synchronization_job(o)
         IN /\ calls' = Append(calls, start_request(service_principal_id, job_id))
            /\ last' = Leaf("start_synchronization_job", o, r)
            /\ IF r.exc # None
               THEN MainRaises(r)
               ELSE /\ pc' = "exit"
                    /\ UNCHANGED <<errors, uncaught>>
    /\ UNCHANGED <<environ, workflow, graph_client, service_principal_id, job_id,
                   assigned_groups_info, group_idx, user_ids, user_idx>>

\* cli_entry_point: client = await get_graph_client()
CliGetGraphClient ==
    /\ pc = "cli:get_graph_client"
    /\ \E o \in ClientAnswers :
         LET r == get_graph_client(o)
         IN /\ calls' = Append(calls, Call("get_graph_client", None, None, None, None, r.value))
            /\ last' = Leaf("get_graph_client", o, r)
            /\ IF r.exc # None
               THEN OnDemandRaises(r.exc, r.errors) /\ UNCHANGED graph_client
               ELSE /\ graph_client' = r.value
                    /\ pc' = "od:get_service_principal_id"
                    /\ UNCHANGED <<errors, uncaught>>
    /\ UNCHANGED <<environ, workflow, service_principal_id, job_id,
                   assigned_groups_info, group_idx, user_ids, user_idx>>

\* fan-out: service_principal_id = await get_service_principal_id(...)
OnDemandGetServicePrincipalId ==
    /\ pc = "od:get_service_principal_id"
    /\ \E o \in Answers(ServicePrincipals, MaxJobs) \cup Failures :
         LET r == get_service_principal_id(o)
         IN /\ calls' = Append(calls, Call("service_principals.get", None, None,
                                           getenv_app_id(environ), None, r.value))
            /\ last' = Leaf("get_service_principal_id", o, r)
            /\ IF r.exc # None
               THEN OnDemandRaises(r.exc, r.errors) /\ UNCHANGED service_principal_id
               ELSE /\ service_principal_id' = r.value
                    /\ UNCHANGED uncaught
                    /\ IF not_found(r.value)
                       THEN /\ errors' = errors \cup
                                  {ErrorRecord("provision_all_users_on_demand_in_app",
                                               "service principal not found")}
                            /\ pc' = "exit"
                       ELSE /\ pc' = "od:get_synchronization_job_id"
                            /\ UNCHANGED errors
    /\ UNCHANGED <<environ, workflow, graph_client, job_id,
                   assigned_groups_info, group_idx, user_ids, user_idx>>

\* fan-out: job_id = await get_synchronization_job_id(...)
OnDemandGetSynchronizationJobId ==
    /\ pc = "od:get_synchronization_job_id"
    /\ \E o \in Answers(SynchronizationJobs, MaxJobs) \cup Failures :
         LET r == get_synchronization_job_id(o)
         IN /\ calls' = Append(calls, Call("synchronization.jobs.get",
                                           service_principal_id, None, None, None, r.value))
            /\ last' = Leaf("get_synchronization_job_id", o, r)
            /\ IF r.exc # None
               THEN OnDemandRaises(r.exc, r.errors) /\ UNCHANGED job_id
               ELSE /\ job_id' = r.value
                    /\ UNCHANGED uncaught
                    /\ IF not_found(r.value)
                       THEN /\ errors' = errors \cup
                                  {ErrorRecord("provision_all_users_on_demand_in_app",
                                               "synchronization job not found")}
                            /\ pc' = "exit"
                       ELSE /\ pc' = "od:get_assigned_groups"
                            /\ UNCHANGED errors
    /\ UNCHANGED <<environ, workflow, graph_client, service_principal_id,
                   assigned_groups_info, group_idx, user_ids, user_idx>>

\* fan-out: assigned_groups_info = await get_assigned_groups(...); an empty
\* list returns, otherwise the outer loop starts at the first group
OnDemandGetAssignedGroups ==
    /\ pc = "od:get_assigned_groups"
    /\ \E o \in Answers(AppRoleAssignments, MaxGroups) \cup Failures :
         LET r == get_assigned_groups(o)
         IN /\ calls' = Append(calls, Call("app_role_assigned_to.get",
                                           service_principal_id, None,
                                           "principalType eq 'Group'", None,
                                           IF r.exc = None THEN r.value ELSE <<>>))
            /\ last' = Leaf("get_assigned_groups", o, r)
            /\ IF r.exc # None
               THEN /\ OnDemandRaises(r.exc, r.errors)
                    /\ UNCHANGED <<assigned_groups_info, group_idx>>
               ELSE /\ assigned_groups_info' = r.value
                    /\ UNCHANGED <<errors, uncaught>>
                    /\ IF is_empty(r.value)
                       THEN pc' = "exit" /\ UNCHANGED group_idx
                       ELSE pc' = "od:get_group_members" /\ group_idx' = 1
    /\ UNCHANGED <<environ, workflow, graph_client, service_principal_id, job_id,
                   user_ids, user_idx>>

\* the outer loop moves to the group after group_idx, or the fan-out returns
NextGroup ==
    IF for_has_next(group_idx, assigned_groups_info)
    THEN pc' = "od:get_group_members" /\ group_idx' = group_idx + 1
    ELSE pc' = "exit" /\ UNCHANGED group_idx

\* (variant: a group without members ends the fan-out)
skip_group_return == pc' = "exit" /\ UNCHANGED group_idx

\* (variant: a group without members is waited on until it has some)
skip_group_wait == pc' = "od:await_members" /\ UNCHANGED group_idx

\* `if not user_ids: ... continue`
skip_group == NextGroup

\* fan-out: user_ids = await get_group_members(graph_client, group_id); no
\* members: continue with the next group
OnDemandGetGroupMembers ==
    /\ pc = "od:get_group_members"
    /\ \E o \in Answers(DirectoryObjects, MaxMembers) \cup Failures :
         LET group_id == assigned_groups_info[group_idx].id
             r == get_group_members(o)
         IN /\ calls' = Append(calls, Call("groups.members.get", None, None,
                                           group_id, None,
                                           IF r.exc = None THEN r.value ELSE <<>>))
            /\ last' = Leaf("get_group_members", o, r)
            /\ IF r.exc # None
               THEN /\ OnDemandRaises(r.exc, r.errors)
                    /\ UNCHANGED <<user_ids, user_idx, group_idx>>
               ELSE /\ user_ids' = r.value
                    /\ UNCHANGED <<errors, uncaught>>
                    /\ IF is_empty(r.value)
                       THEN skip_group /\ UNCHANGED user_idx
                       ELSE /\ pc' = "od:provision_user_on_demand"
                            /\ user_idx' = 1
                            /\ UNCHANGED group_idx
    /\ UNCHANGED <<environ, workflow, graph_client, service_principal_id, job_id,
                   assigned_groups_info>>

\* fan-out: await provision_user_on_demand(...) inside the per-user try; then
\* the next user, the next group, or the fan-out returns
OnDemandProvisionUser ==
    /\ pc = "od:provision_user_on_demand"
    /\ \E o \in PostAnswers \cup Failures :
         LET group_id == assigned_groups_info[group_idx].id
             user_id == user_ids[user_idx]
             r == provision_user_on_demand(o)
             h == IF r.exc # None
                  THEN provision_loop_except(r.exc, user_id, group_id)
                  ELSE [exc |-> None, errors |-> {}]
         IN /\ calls' = Append(calls, provision_request(service_principal_id,
                                                        job_id, user_id))
            /\ last' = Leaf("provision_user_on_demand", o, r)
            /\ IF h.exc # None
               THEN /\ OnDemandRaises(h.exc, r.errors \cup h.errors)
                    /\ UNCHANGED <<user_idx, group_idx>>
               ELSE /\ errors' = errors \cup r.errors \cup h.errors
                    /\ UNCHANGED uncaught
                    /\ IF for_has_next(user_idx, user_ids)
                       THEN /\ user_idx' = user_idx + 1
                            /\ UNCHANGED <<pc, group_idx>>
                       ELSE NextGroup /\ UNCHANGED user_idx
    /\ UNCHANGED <<environ, workflow, graph_client, service_principal_id, job_id,
                   assigned_groups_info, user_ids>>

Next ==
    \/ CliEntryPoint
    \/ MainGetGraphClient
    \/ MainGetServicePrincipalId
    \/ MainGetSynchronizationJobId
    \/ MainStartSynchronizationJob
    \/ CliGetGraphClient
    \/ OnDemandGetServicePrincipalId
    \/ OnDemandGetSynchronizationJobId
    \/ OnDemandGetAssignedGroups
    \/ OnDemandGetGroupMembers
    \/ OnDemandProvisionUser

Spec == Init /\ [][Next]_vars

\* asyncio.run(cli_entry_point()) runs the coroutine to completion: it is
\* resumed whenever the call it awaits has returned or raised.  With every
\* remote call answering in the end, a step that can be taken is taken.
FairSpec == Spec /\ WF_vars(Next)

\* ------------------------------------------------------------ properties
\* Vocabulary of the properties below.
RECURSIVE Flatten(_)
Flatten(ss) == IF ss = <<>> THEN <<>> ELSE Head(ss) \o Flatten(Tail(ss))

IsPrefix(a, b) == Len(a) <= Len(b) /\ SubSeq(b, 1, Len(a)) = a

OpSpGet == "service_principals.get"
OpJobsGet == "synchronization.jobs.get"
OpStart == "synchronization.jobs.start.post"
OpGroupsGet == "app_role_assigned_to.get"
OpMembersGet == "groups.members.get"
OpProvision == "synchronization.jobs.provision_on_demand.post"

CallsOf(op) == SelectSeq(calls, LAMBDA c : c.op = op)
ArgsOf(op) == [i \in 1..Len(CallsOf(op)) |-> CallsOf(op)[i].arg]

\* the user ids provisioning was attempted for, in order
Triggered == ArgsOf(OpProvision)
\* the member lists the fan-out was handed, in order, and their users
ListedPerGroup == [i \in 1..Len(CallsOf(OpMembersGet)) |-> CallsOf(OpMembersGet)[i].returned]
Listed == Flatten(ListedPerGroup)
GroupIds == [i \in 1..Len(assigned_groups_info) |-> assigned_groups_info[i].id]

Lookups == {"get_graph_client", "get_service_principal_id",
            "get_synchronization_job_id", "get_assigned_groups",
            "get_group_members"}
\* the latest leaf call raised / answered
LastRaised(fn) == last.fn = fn /\ last.result.exc # None
LastAnswered(fn) == last.fn = fn /\ last.answer.exc = None
\* no lookup has raised (one that raises ends the run at once)
LookupsSucceeded == \A fn \in Lookups : ~LastRaised(fn)
LoopRecord(exc) == ErrorRecord("provision_all_users_on_demand_in_app", exc)
TopLevelRecords == {e \in errors : e.fn \in {"main", "cli_entry_point"}
                                   /\ e.about \in {"ODataError", "AttributeError", "Exception"}}

\* C1: failure isolation.  In an on-demand run whose lookups all succeed, a
\* trigger that raises is caught inside the per-user loop (its error is
\* logged there and never reaches cli_entry_point's handler), the triggers
\* issued so far are always a prefix of the users listed so far, and when
\* the run has ended every assigned group was listed once, in order, and
\* provisioning was attempted exactly once for every listed user, whatever
\* subset of the triggers failed.
C1_FailureIsolation ==
    (workflow = "on_demand" /\ LookupsSucceeded) =>
        /\ uncaught = None
        /\ TopLevelRecords = {}
        /\ (LastRaised("provision_user_on_demand") =>
                LoopRecord(last.result.exc) \in errors)
        /\ IsPrefix(Triggered, Listed)
        /\ (pc = "exit" =>
                /\ ArgsOf(OpMembersGet) = GroupIds
                /\ Triggered = Listed)

\* C1 witness: a finished run over two groups in which a trigger failed
\* (the loop logged it), the trigger after it went through, and three users
\* in all were attempted.
C1_Witness ==
    /\ pc = "exit" /\ workflow = "on_demand"
    /\ Len(CallsOf(OpMembersGet)) = 2
    /\ Triggered = <<"u1", "u2", "u1">>
    /\ LoopRecord("ODataError") \in errors
    /\ LastAnswered("provision_user_on_demand")

\* C2: fan-out coverage.  Assigned groups g1 and g2, whose member listings
\* answer <<u1>> and <<u2>>: when the run has ended with every lookup
\* succeeding, exactly two triggers were issued, for u1 and then u2.
C2_FanOutCoverage ==
    ( /\ pc = "exit" /\ workflow = "on_demand" /\ LookupsSucceeded
      /\ GroupIds = <<"g1", "g2">>
      /\ \A i \in 1..Len(CallsOf(OpMembersGet)) :
           LET c == CallsOf(OpMembersGet)[i]
           IN c.returned = (IF c.arg = "g1" THEN <<"u1">> ELSE <<"u2">>) )
    => /\ Triggered = <<"u1", "u2">>
       /\ Len(CallsOf(OpMembersGet)) = 2

\* C2 witness: that run, ended, both triggers having gone through.
C2_Witness ==
    /\ pc = "exit" /\ workflow = "on_demand"
    /\ GroupIds = <<"g1", "g2">>
    /\ ListedPerGroup = << <<"u1">>, <<"u2">> >>
    /\ Triggered = <<"u1", "u2">>
    /\ errors = {}

\* C3: no matching service principal.  When the lookup answers no list, or
\* an empty one, get_service_principal_id returns None, and a lookup that
\* hands back no usable id is the last request of the run, in either
\* workflow: the run has ended and nothing was requested after it.
C3_NoServicePrincipal ==
    /\ \A i \in 1..Len(calls) :
         (calls[i].op = OpSpGet /\ ~Truthy(calls[i].returned)) =>
             (i = Len(calls) /\ pc = "exit")
    /\ (LastAnswered("get_service_principal_id") /\ ~HasValue(last.answer)) =>
           /\ last.result = Returns(None)
           /\ service_principal_id = None
           /\ calls[Len(calls)].op = OpSpGet
           /\ pc = "exit"

\* C3 witness: the on-demand run ended by a lookup that answered an empty list.
C3_Witness ==
    /\ workflow = "on_demand" /\ pc = "exit"
    /\ LastAnswered("get_service_principal_id")
    /\ last.answer.kind = "Value" /\ last.answer.value = <<>>
    /\ Len(calls) = 2 /\ calls[2].op = OpSpGet

\* C4: no synchronization job.  When the job listing answers no list, or an
\* empty one, get_synchronization_job_id returns None, and a listing that
\* hands back no usable id is the last request of the run: main issues no
\* start request, the fan-out lists no assignments or members and triggers
\* nothing.
C4_NoSynchronizationJob ==
    /\ \A i \in 1..Len(calls) :
         (calls[i].op = OpJobsGet /\ ~Truthy(calls[i].returned)) =>
             (i = Len(calls) /\ pc = "exit")
    /\ (LastAnswered("get_synchronization_job_id") /\ ~HasValue(last.answer)) =>
           /\ last.result = Returns(None)
           /\ job_id = None
           /\ calls[Len(calls)].op = OpJobsGet
           /\ pc = "exit"
           /\ CallsOf(OpStart) = <<>> /\ CallsOf(OpGroupsGet) = <<>>
           /\ CallsOf(OpMembersGet) = <<>> /\ CallsOf(OpProvision) = <<>>

\* C4 witness: main ended by a job listing that answered an empty list.
C4_Witness ==
    /\ workflow = "main" /\ pc = "exit"
    /\ LastAnswered("get_synchronization_job_id")
    /\ last.answer.kind = "Value" /\ last.answer.value = <<>>
    /\ Len(calls) = 3 /\ calls[3].op = OpJobsGet

\* C5: in a run of main the start request is issued at most once; it comes
\* directly after the job listing, which comes directly after the service
\* principal lookup, and carries exactly the two ids those handed back, both
\* usable; a run that has ended with both found issued it exactly once; a
\* start that raised ends the run.
C5_StartOnce ==
    workflow = "main" =>
        /\ Len(CallsOf(OpStart)) <= 1
        /\ Len(CallsOf(OpSpGet)) <= 1 /\ Len(CallsOf(OpJobsGet)) <= 1
        /\ \A i \in 1..Len(calls) :
             calls[i].op = OpStart =>
                 /\ i >= 3
                 /\ calls[i-2].op = OpSpGet /\ calls[i-1].op = OpJobsGet
                 /\ Truthy(calls[i-2].returned) /\ Truthy(calls[i-1].returned)
                 /\ calls[i].service_principal_id = calls[i-2].returned
                 /\ calls[i].job_id = calls[i-1].returned
                 /\ calls[i-1].service_principal_id = calls[i-2].returned
        /\ ( /\ pc = "exit"
             /\ \E c \in {calls[i] : i \in 1..Len(calls)} :
                    c.op = OpJobsGet /\ Truthy(c.returned) )
           => Len(CallsOf(OpStart)) = 1
        /\ LastRaised("start_synchronization_job") =>
               (pc = "exit" /\ calls[Len(calls)].op = OpStart)

\* C5 witness: main ended after a start request that raised, with the second
\* listed job left alone.
C5_Witness ==
    /\ workflow = "main" /\ pc = "exit"
    /\ LastRaised("start_synchronization_job")
    /\ Len(calls) = 4
    /\ calls[4] = start_request("sp-1", "job-2")

\* C6: no group assignments.  When the assignment listing answers no list,
\* or an empty one, get_assigned_groups returns the empty list, and a
\* listing that hands back no group is the last request of the run: no
\* members are listed and nothing is triggered.
C6_NoGroups ==
    /\ \A i \in 1..Len(calls) :
         (calls[i].op = OpGroupsGet /\ calls[i].returned = <<>>) =>
             (i = Len(calls) /\ pc = "exit")
    /\ (LastAnswered("get_assigned_groups") /\ ~HasValue(last.answer)) =>
           /\ last.result.exc = None
           /\ last.result.value = <<>>
           /\ pc = "exit"
           /\ TopLevelRecords = {}
           /\ CallsOf(OpMembersGet) = <<>> /\ CallsOf(OpProvision) = <<>>

\* C6 witness: the fan-out ended by an assignment listing without a list.
C6_Witness ==
    /\ workflow = "on_demand" /\ pc = "exit"
    /\ LastAnswered("get_assigned_groups")
    /\ last.answer.kind = "NoValue"
    /\ service_principal_id = "sp-1" /\ job_id = "job-1"
    /\ Len(calls) = 4

\* C7: AZURE_APP_ID unset or empty.  Whatever the flag, nothing is ever
\* requested (no client either) and the ended run has logged that the
\* variable is not set.
C7_MissingAppId ==
    environ.AZURE_APP_ID \in {None, ""} =>
        /\ calls = <<>>
        /\ graph_client = None
        /\ pc \in {"cli_entry_point", "exit"}
        /\ uncaught = None
        /\ (pc = "exit" =>
               errors = {ErrorRecord(IF workflow = "on_demand"
                                     THEN "cli_entry_point" ELSE "main",
                                     "AZURE_APP_ID not set")})

\* C7 witness: the on-demand branch, taken with an empty AZURE_APP_ID, has ended.
C7_Witness ==
    /\ environ.AZURE_APP_ID = ""
    /\ workflow = "on_demand" /\ pc = "exit"
    /\ calls = <<>> /\ errors # {}

\* "true" in any mix of cases
IsTrueAnyCase(s) ==
    /\ Len(s) = 4
    /\ s[1] \in {"t", "T"} /\ s[2] \in {"r", "R"}
    /\ s[3] \in {"u", "U"} /\ s[4] \in {"e", "E"}

FlagIsTrue ==
    /\ environ.RUN_ON_DEMAND_PROVISIONING.isset
    /\ IsTrueAnyCase(environ.RUN_ON_DEMAND_PROVISIONING.value)

\* C8: the branch cli_entry_point takes depends on the flag alone: the
\* fan-out when RUN_ON_DEMAND_PROVISIONING is "true" in any mix of cases,
\* main for every other value and when unset.  The fan-out branch acquires
\* the client first and then resolves the configured application id; it
\* never starts a job, and main never lists assignments or members or
\* triggers provisioning.
C8_Dispatch ==
    workflow # None =>
        /\ workflow = (IF FlagIsTrue THEN "on_demand" ELSE "main")
        /\ FlagIsTrue =>
               /\ CallsOf(OpStart) = <<>>
               /\ Len(calls) >= 1 => calls[1].op = "get_graph_client"
               /\ Len(calls) >= 2 =>
                      /\ calls[1].returned = "client" /\ graph_client = "client"
                      /\ calls[2].op = OpSpGet
                      /\ calls[2].arg = environ.AZURE_APP_ID
        /\ ~FlagIsTrue =>
               /\ CallsOf(OpGroupsGet) = <<>>
               /\ CallsOf(OpMembersGet) = <<>>
               /\ CallsOf(OpProvision) = <<>>

\* C8 witness: the flag "TruE" has taken the fan-out branch as far as a trigger.
C8_Witness ==
    /\ environ.RUN_ON_DEMAND_PROVISIONING.value = <<"T", "r", "u", "E">>
    /\ workflow = "on_demand"
    /\ Len(CallsOf(OpProvision)) >= 1

\* C9: no exception ever leaves cli_entry_point; a client acquisition, a
\* lookup or a start request that raised has ended the run, and the top
\* level handler of the running workflow (main's, or the dispatcher's in the
\* on-demand branch) has logged the exception.
C9_AlwaysExitsZero ==
    /\ uncaught = None
    /\ \A fn \in Lookups \cup {"start_synchronization_job"} :
         LastRaised(fn) =>
             /\ pc = "exit"
             /\ ErrorRecord(IF workflow = "main" THEN "main" ELSE "cli_entry_point",
                            last.result.exc) \in errors

\* C9 witness: the fan-out ended by a member listing that raised, after a
\* trigger had been issued.
C9_Witness ==
    /\ workflow = "on_demand" /\ pc = "exit"
    /\ LastRaised("get_group_members")
    /\ Len(CallsOf(OpProvision)) >= 1
    /\ uncaught = None

\* C10: when the job listing answers a list of one or more jobs,
\* get_synchronization_job_id returns the id of the first, whatever the
\* number and the content of the others, and the workflow keeps that id.
C10_FirstJob ==
    (LastAnswered("get_synchronization_job_id") /\ HasValue(last.answer)) =>
        /\ last.result = Returns(last.answer.value[1].id)
        /\ job_id = last.answer.value[1].id
        /\ calls[Len(calls)].returned = last.answer.value[1].id

\* C10 witness: two jobs listed, the first one's id returned.
C10_Witness ==
    /\ LastAnswered("get_synchronization_job_id")
    /\ last.answer.value = <<[id |-> "job-1"], [id |-> "job-2"]>>
    /\ job_id = "job-1"

\* the principal id of every assignment of a listing, in order
PrincipalIds(assignments) ==
    [i \in 1..Len(assignments) |-> assignments[i].principal_id]

\* C11: when the assignment listing answers, get_assigned_groups returns the
\* list of the principal id values themselves, one per assignment answered
\* and in the order answered (the empty list when none is answered).  A
\* list of records never equals a list of strings, so the two lists are
\* compared by their printed forms.
C11_ReturnsGroupIds ==
    LastAnswered("get_assigned_groups") =>
        /\ last.result.exc = None
        /\ ToString(last.result.value) = ToString(PrincipalIds(last.answer.value))

C13_TriggerArguments ==
    workflow = "on_demand" =>
        /\ Len(CallsOf(OpSpGet)) <= 1 /\ Len(CallsOf(OpJobsGet)) <= 1
        /\ Len(calls) >= 2 => Len(CallsOf(OpSpGet)) = 1
        /\ Len(calls) >= 3 => Len(CallsOf(OpJobsGet)) = 1
        /\ \A i \in 1..Len(CallsOf(OpProvision)) :
             LET c == CallsOf(OpProvision)[i]
             IN /\ c.service_principal_id = CallsOf(OpSpGet)[1].returned
                /\ c.job_id = CallsOf(OpJobsGet)[1].returned
                /\ c.service_principal_id = service_principal_id
                /\ c.job_id = job_id
                /\ c.arg = Listed[i]
                /\ c.object_type_name = "User"

\* C13 witness: three triggers over two groups, of which the second listed
\* job was not the one resolved.
C13_Witness ==
    /\ workflow = "on_demand"
    /\ Len(CallsOf(OpProvision)) = 3
    /\ Len(CallsOf(OpMembersGet)) = 2
    /\ CallsOf(OpProvision)[3] = provision_request("sp-1", "job-2", "u2")

\* the leaf operations that wrap one remote request each
LeafOperations == {"get_service_principal_id", "get_synchronization_job_id",
                   "start_synchronization_job", "get_assigned_groups",
                   "get_group_members", "provision_user_on_demand"}

\* C14: when the remote call of a leaf operation raises (an ODataError or
\* any other exception), the leaf logs an error record for it and raises
\* that same exception to its caller; it hands back no value, not-found or
\* empty, in its place.
C14_LeafReraises ==
    (last.fn \in LeafOperations /\ last.answer.exc # None) =>
        /\ last.result.exc = last.answer.exc
        /\ last.result.errors = {ErrorRecord(last.fn, last.answer.exc)}
        /\ last.result.errors \subseteq errors

\* the positions in calls of the member listings that answered an empty
\* list (a listing that raised is not one of them)
EmptyListings ==
    {k \in 1..Len(calls) :
        /\ calls[k].op = OpMembersGet /\ calls[k].returned = <<>>
        /\ ~(k = Len(calls) /\ LastRaised("get_group_members"))}

\* the number of member listings among the first k calls
ListingsUpTo(k) == Len(SelectSeq(SubSeq(calls, 1, k), LAMBDA c : c.op = OpMembersGet))

\* C15: a group whose member list is empty.  No trigger follows its
\* listing: the next request, if any, is the listing of the next assigned
\* group.  The run does not end there unless it was the last group: the
\* fan-out stands at the listing of the group after it.  When the run has
\* ended with every lookup succeeding, every assigned group was listed and
\* every listed user triggered, the groups after the empty one included.
C15_EmptyGroupSkipped ==
    workflow = "on_demand" =>
        /\ \A k \in EmptyListings :
             LET n == ListingsUpTo(k)
             IN /\ calls[k].arg = GroupIds[n]
                /\ k < Len(calls) =>
                       /\ calls[k+1].op = OpMembersGet
                       /\ calls[k+1].arg = GroupIds[n+1]
                /\ k = Len(calls) =>
                       IF n < Len(GroupIds)
                       THEN pc = "od:get_group_members" /\ group_idx = n + 1
                       ELSE pc = "exit"
        /\ (pc = "exit" /\ LookupsSucceeded /\ EmptyListings # {}) =>
               /\ ArgsOf(OpMembersGet) = GroupIds
               /\ Triggered = Listed

\* C15 witness: the first of two groups had no members; the second was
\* listed and both its users triggered.
C15_Witness ==
    /\ workflow = "on_demand" /\ pc = "exit"
    /\ Len(GroupIds) = 2
    /\ ListedPerGroup = << <<>>, <<"u1", "u2">> >>
    /\ Triggered = <<"u1", "u2">>
    /\ 5 \in EmptyListings

\* the requests of the fan-out's loops so far, as <<operation, argument>>
LoopRequests ==
    LET cs == SelectSeq(calls, LAMBDA c : c.op \in {OpMembersGet, OpProvision})
    IN [i \in 1..Len(cs) |-> <<cs[i].op, cs[i].arg>>]

\* the requests the listings so far call for: per group listed, its listing
\* and then one trigger per member handed back, in order
Schedule ==
    Flatten([i \in 1..Len(ListedPerGroup) |->
                <<  <<OpMembersGet, GroupIds[i]>>  >> \o
                [j \in 1..Len(ListedPerGroup[i]) |->
                    <<OpProvision, ListedPerGroup[i][j]>>]])

\* C16: order.  The groups are taken in the order the assignment listing
\* answered them and the members in the order their listing handed them
\* back: the requests of the loops are, group after group, the listing of
\* group i (once) and then the triggers for its members, so every trigger
\* for group i comes before the listing of group i+1; nothing comes before
\* the assignment listing; and a run that has ended with every lookup
\* succeeding issued the whole schedule, its triggers being the member lists
\* joined in group order.
C16_Order ==
    workflow = "on_demand" =>
        /\ LastAnswered("get_assigned_groups") =>
               GroupIds = SelectSeq(PrincipalIds(last.answer.value), Truthy)
        /\ IsPrefix(ArgsOf(OpMembersGet), GroupIds)
        /\ IsPrefix(LoopRequests, Schedule)
        /\ LoopRequests # <<>> =>
               /\ Len(CallsOf(OpGroupsGet)) = 1
               /\ calls[4].op = OpGroupsGet
        /\ (pc = "exit" /\ LookupsSucceeded) =>
               /\ ArgsOf(OpMembersGet) = GroupIds
               /\ LoopRequests = Schedule
               /\ Triggered = Flatten(ListedPerGroup)

\* C16 witness: groups answered as g2, g1; g2's two members were triggered,
\* then g1 was listed and its member triggered.
C16_Witness ==
    /\ workflow = "on_demand" /\ pc = "exit"
    /\ GroupIds = <<"g2", "g1">>
    /\ LoopRequests = << <<OpMembersGet, "g2">>, <<OpProvision, "u2">>,
                         <<OpProvision, "u1">>, <<OpMembersGet, "g1">>,
                         <<OpProvision, "u1">> >>

\* C17: termination.  When every awaited call returns or raises in the end,
\* every run, in either mode and whatever the listings answer, reaches the
\* point where cli_entry_point returns; and short of that point the run is
\* never stuck on its own: it always stands at a step that an answer lets
\* it take.
C17_Termination ==
    /\ [](pc # "exit" => ENABLED Next)
    /\ <>(pc = "exit")

\* C17 witness: the fan-out has returned after its longest run, two groups
\* of two members each.
C17_Witness ==
    /\ workflow = "on_demand" /\ pc = "exit"
    /\ Len(CallsOf(OpMembersGet)) = 2
    /\ Len(CallsOf(OpProvision)) = 4

\* the remote call of the latest leaf operation failed
LastFailed(fn) == last.fn = fn /\ last.answer.exc # None

\* C18: a member listing that fails is not isolated.  It is the last
\* request of the run: the fan-out has ended at that group, handing the
\* exception to cli_entry_point's handler, so the groups after it are
\* neither listed nor provisioned; the requests
\* issued before it all stand, the triggers for the earlier groups being
\* exactly their listed members, and no request follows to undo them.
C18_ListingFailureEndsFanOut ==
    LastFailed("get_group_members") =>
        LET n == Len(CallsOf(OpMembersGet))
        IN /\ pc = "exit"
           /\ calls[Len(calls)].op = OpMembersGet
           /\ calls[Len(calls)].arg = GroupIds[n]
           /\ ArgsOf(OpMembersGet) = SubSeq(GroupIds, 1, n)
           /\ last.result.exc # None
           /\ ErrorRecord("cli_entry_point", last.result.exc) \in errors
           /\ Triggered = Flatten(SubSeq(ListedPerGroup, 1, n - 1))
           /\ \A k \in 1..Len(calls) :
                  calls[k].op = OpProvision =>
                      /\ k < Len(calls)
                      /\ calls[k].service_principal_id = service_principal_id
                      /\ calls[k].job_id = job_id

\* C18 witness: two groups assigned, the listing of the first failed: the
\* run has ended and the second was never listed.
C18_Witness ==
    /\ workflow = "on_demand" /\ pc = "exit"
    /\ LastFailed("get_group_members")
    /\ GroupIds = <<"g1", "g2">>
    /\ ArgsOf(OpMembersGet) = <<"g1">>
    /\ Triggered = <<>>

\* how many times x occurs in a list, and the lengths of lists added up
Count(x, xs) == Len(SelectSeq(xs, LAMBDA y : y = x))

RECURSIVE SumLen(_)
SumLen(ss) == IF ss = <<>> THEN 0 ELSE Len(Head(ss)) + SumLen(Tail(ss))

\* C19: nothing is de-duplicated.  A group the assignment listing answers k
\* times is k times in the list get_assigned_groups returns; and in a run
\* that has ended with every lookup succeeding, a group is listed as many
\* times as it is in that list, the number of triggers is the sum of the
\* lengths of the member lists handed back, and a user is triggered once for
\* every time one of those lists names it.
C19_NoDeduplication ==
    workflow = "on_demand" =>
        /\ LastAnswered("get_assigned_groups") =>
               \A g \in {"g1", "g2"} :
                   Count(g, GroupIds) = Count(g, PrincipalIds(last.answer.value))
        /\ (pc = "exit" /\ LookupsSucceeded) =>
               /\ \A g \in {"g1", "g2"} :
                      Count(g, ArgsOf(OpMembersGet)) = Count(g, GroupIds)
               /\ Len(Triggered) = SumLen(ListedPerGroup)
               /\ \A u \in {"u1", "u2"} :
                      Count(u, Triggered) = Count(u, Flatten(ListedPerGroup))

\* C19 witness: the assignment listing answered g1 twice and u1 is a
\* member both times: u1 was triggered twice in the run.
C19_Witness ==
    /\ workflow = "on_demand" /\ pc = "exit"
    /\ GroupIds = <<"g1", "g1">>
    /\ ListedPerGroup = << <<"u1">>, <<"u1">> >>
    /\ Triggered = <<"u1", "u1">>

Exceptions == {"ODataError", "AttributeError", "Exception"}
\* the exceptions the handler of fn has caught and logged
CaughtBy(fn) == {e \in Exceptions : ErrorRecord(fn, e) \in errors}

\* C20: where errors end.  In a run of main nothing leaves main: whichever
\* of its calls raises, main's own handler logs it, the run ends and the
\* dispatcher's handler sees nothing.  In an on-demand run the fan-out
\* catches trigger errors only: a trigger that raises is logged by the
\* per-user handler and goes no further, while an exception from resolving
\* the service principal or the job, or from listing the groups or the
\* members, is not caught by the fan-out, ends it, and is caught and logged
\* by cli_entry_point, which lets nothing out either.
C20_ErrorBoundaries ==
    /\ workflow = "main" =>
           /\ uncaught = None
           /\ CaughtBy("cli_entry_point") = {}
           /\ CaughtBy("provision_all_users_on_demand_in_app") = {}
           /\ \A fn \in {"get_graph_client", "get_service_principal_id",
                         "get_synchronization_job_id", "start_synchronization_job"} :
                  LastRaised(fn) =>
                      (pc = "exit" /\ last.result.exc \in CaughtBy("main"))
    /\ workflow = "on_demand" =>
           /\ uncaught = None
           /\ CaughtBy("main") = {}
           /\ \A fn \in {"get_service_principal_id", "get_synchronization_job_id",
                         "get_assigned_groups", "get_group_members"} :
                  LastRaised(fn) =>
                      /\ pc = "exit"
                      /\ CaughtBy("cli_entry_point") = {last.result.exc}
                      /\ CallsOf(OpProvision) = <<>> =>
                             CaughtBy("provision_all_users_on_demand_in_app") = {}
           /\ LastRaised("provision_user_on_demand") =>
                  /\ last.result.exc \in CaughtBy("provision_all_users_on_demand_in_app")
                  /\ CaughtBy("cli_entry_point") = {}
           /\ CaughtBy("provision_all_users_on_demand_in_app") # {} =>
                  CallsOf(OpProvision) # <<>>

\* C20 witness: in an on-demand run the assignment listing raised an
\* ODataError; the leaf and then cli_entry_point logged it, the fan-out did not.
C20_Witness ==
    /\ workflow = "on_demand" /\ pc = "exit"
    /\ LastRaised("get_assigned_groups")
    /\ errors = {ErrorRecord("get_assigned_groups", "ODataError"),
                 ErrorRecord("cli_entry_point", "ODataError")}

\* the suspension points of either workflow
MainPcs == {"main:get_graph_client", "main:get_service_principal_id",
            "main:get_synchronization_job_id", "main:start_synchronization_job"}
OnDemandPcs == {"cli:get_graph_client", "od:get_service_principal_id",
                "od:get_synchronization_job_id", "od:get_assigned_groups",
                "od:get_group_members", "od:provision_user_on_demand"}
\* the error records a function has written, whatever about
LoggedBy(fn) == {e \in errors : e.fn = fn}

\* C21: one run, one workflow.  The branch taken is never left for the
\* other.  A run of main never stands in the fan-out, never lists
\* assignments or members and never triggers provisioning, and neither the
\* dispatcher nor the fan-out logs an error in it.  An on-demand run never
\* stands in main and never starts a job, and main logs nothing in it; this
\* holds also once it has ended, for want of an application id or by an
\* exception: the run stays ended.  Either way the client is acquired at
\* most once.
C21_OneWorkflow ==
    /\ [][workflow # None => workflow' = workflow]_vars
    /\ [][pc = "exit" => pc' = "exit"]_vars
    /\ [](workflow = "main" =>
             /\ pc \in MainPcs \cup {"exit"}
             /\ CallsOf(OpGroupsGet) = <<>>
             /\ CallsOf(OpMembersGet) = <<>>
             /\ CallsOf(OpProvision) = <<>>
             /\ LoggedBy("cli_entry_point") = {}
             /\ LoggedBy("provision_all_users_on_demand_in_app") = {}
             /\ Len(CallsOf("get_graph_client")) <= 1)
    /\ [](workflow = "on_demand" =>
             /\ pc \in OnDemandPcs \cup {"exit"}
             /\ CallsOf(OpStart) = <<>>
             /\ LoggedBy("main") = {}
             /\ Len(CallsOf("get_graph_client")) <= 1
             /\ Len(CallsOf(OpSpGet)) <= 1
             /\ Len(CallsOf(OpJobsGet)) <= 1)

\* C21 witness: an on-demand run ended by an exception from the job
\* listing; three requests were issued, none of them main's start.
C21_Witness ==
    /\ workflow = "on_demand" /\ pc = "exit"
    /\ LastRaised("get_synchronization_job_id")
    /\ Len(calls) = 3
    /\ CaughtBy("cli_entry_point") # {}

\* the function whose code runs the lookups, and what it logs when a lookup
\* hands back no usable id
WorkflowFunction ==
    IF workflow = "main" THEN "main" ELSE "provision_all_users_on_demand_in_app"
NotFoundRecord(fn) ==
    ErrorRecord(WorkflowFunction, IF fn = "get_service_principal_id"
                          THEN "service principal not found"
                          ELSE "synchronization job not found")
\* the request a lookup issues
LookupOp(fn) == IF fn = "get_service_principal_id" THEN OpSpGet ELSE OpJobsGet

\* C22: an id that is there but empty counts as not found.  When the first
\* service principal or the first job of an answered list has no id or an
\* empty one, the resolver returns that value, whatever the entries after
\* it, and the workflow ends as it does for an empty list: the lookup is
\* the last request of the run, the same not-found error is the only one
\* logged, and no start and no trigger is issued.  So every start request
\* and every trigger request carries a service principal id and a job id
\* that are not empty.
C22_EmptyIdIsNotFound ==
    /\ \A fn \in {"get_service_principal_id", "get_synchronization_job_id"} :
         /\ (LastAnswered(fn) /\ HasValue(last.answer)
                 /\ last.answer.value[1].id \in {None, ""}) =>
                /\ last.result = Returns(last.answer.value[1].id)
                /\ calls[Len(calls)].returned = last.answer.value[1].id
         /\ (LastAnswered(fn) /\ ~Truthy(last.result.value)) =>
                /\ pc = "exit"
                /\ calls[Len(calls)].op = LookupOp(fn)
                /\ errors = {NotFoundRecord(fn)}
                /\ CallsOf(OpStart) = <<>>
                /\ CallsOf(OpGroupsGet) = <<>>
                /\ CallsOf(OpProvision) = <<>>
    /\ \A k \in 1..Len(calls) :
         calls[k].op \in {OpStart, OpProvision} =>
             /\ Truthy(calls[k].service_principal_id)
             /\ Truthy(calls[k].job_id)

\* C22 witness: main ended at a job listing whose first job has an empty
\* id and whose second has a usable one; nothing was started.
C22_Witness ==
    /\ workflow = "main" /\ pc = "exit"
    /\ LastAnswered("get_synchronization_job_id")
    /\ last.answer.value = <<[id |-> ""], [id |-> "job-1"]>>
    /\ job_id = ""
    /\ CallsOf(OpStart) = <<>>

\* C23: assignments without a principal id.  get_assigned_groups hands
\* back one group per assignment that carries a principal id and none for
\* the others, so no group of the list has a missing or empty id and every
\* member listing is requested for a group id that is not empty.  When the
\* listing answers assignments none of which carries a principal id, the
\* result is the empty list and the fan-out ends as with no assignment at
\* all: the listing is the last request, no members are listed, nothing is
\* triggered and no error is logged.
C23_IdlessAssignmentsDropped ==
    workflow = "on_demand" =>
        /\ \A i \in 1..Len(GroupIds) : GroupIds[i] \notin {None, ""}
        /\ \A k \in 1..Len(calls) :
             calls[k].op = OpMembersGet => calls[k].arg \notin {None, ""}
        /\ LastAnswered("get_assigned_groups") =>
               LET ids == PrincipalIds(last.answer.value)
                   kept == {i \in 1..Len(ids) : ids[i] \notin {None, ""}}
               IN /\ last.result.exc = None
                  /\ Len(last.result.value) = Cardinality(kept)
                  /\ assigned_groups_info = last.result.value
                  /\ kept = {} =>
                         /\ last.result.value = <<>>
                         /\ pc = "exit"
                         /\ calls[Len(calls)].op = OpGroupsGet
                         /\ CallsOf(OpMembersGet) = <<>>
                         /\ CallsOf(OpProvision) = <<>>
                         /\ errors = {}
                         /\ uncaught = None

\* C23 witness: the listing answered two assignments, one without a
\* principal id and one with an empty one; the fan-out has ended there.
C23_Witness ==
    /\ workflow = "on_demand" /\ pc = "exit"
    /\ LastAnswered("get_assigned_groups")
    /\ PrincipalIds(last.answer.value) = <<None, "">>
    /\ assigned_groups_info = <<>>
    /\ Len(calls) = 4

====
